---- MODULE Spec2Model ----
(***************************************************************************)
(* Q-ary search (ml::algorithm::_Q_ary_search, Q = 2..6) of                *)
(* q_ary_search.hpp: a sorted range is narrowed by probing Q-1 fragment    *)
(* borders per step and finished by a linear scan once the window is       *)
(* shorter than the per-arity _to_linear_threshold.                        *)
(*                                                                         *)
(* Positions are offsets from the range's first element: the range is      *)
(* [0, Len(a)) and the element at position p is a[p + 1].  One behaviour   *)
(* exercises the functions of one arity Q on one array, call after call.   *)
(***************************************************************************)
EXTENDS Integers, Sequences, FiniteSets, TLC

VARIABLES
    a,                      \* the range handed to the search (never written)
    Q,                      \* arity of the function family under study
    _to_linear_threshold,   \* _Q_ary_search_parameters._to_linear_threshold
    pc,                     \* "idle", "loop", "linear", "done"
    wrapper,                \* entry point of the call in flight
    q,                      \* the query value
    begin,                  \* local 'begin' of the core
    end,                    \* local 'end' of the core
    length,                 \* local 'length'
    fragment_length,        \* local 'fragment_length'
    result,                 \* position returned by the core
    found,                  \* value returned by the membership overload
    reads,                  \* positions dereferenced by the call so far
    iters,                  \* narrowing iterations of the call (saturating)
    thr_reg,                \* threshold value last loaded by the call
    thr_first,              \* threshold value loaded by the call's first test
    written                 \* threshold written since the call's first load

vars == << a, Q, _to_linear_threshold, pc, wrapper, q, begin, end, length,
           fragment_length, result, found, reads, iters, thr_reg, thr_first,
           written >>

----------------------------------------------------------------------------
(* Bounds of the model.                                                    *)

\* longest sorted range of Spec
MaxLen == 47
\* longest range of AnySpec (arbitrary, possibly unsorted contents)
MaxLenAny == 12
\* longest sorted range of ThrSpec (threshold written at any moment)
MaxLenThr == 6
\* longest sorted range of FairThrSpec
MaxLenFair == 2
\* longest sorted range of GeSpec (thresholds of at least the arity)
MaxLenGe == 16
\* the iteration counter 'iters' saturates here
MaxIters == 10

\* no threshold loaded yet / no result yet
None == -1

Arities == 2 .. 6
\* array elements are 2 and 4, so the queries fall below, on, between,
\* on and above them
Queries == 1 .. 5
\* what a read outside the range may yield (below / above every query)
Garbage == {0, 6}
Wrappers == {"lower_bound", "upper_bound", "search"}

\* sorted ranges: k elements 2 followed by n - k elements 4
SortedArrays(maxlen) ==
    UNION { { [i \in 1 .. n |-> IF i <= k THEN 2 ELSE 4] : k \in 0 .. n } :
            n \in 0 .. maxlen }

\* every range over the two element values, sorted or not
AnyArrays(maxlen) ==
    UNION { [1 .. n -> {2, 4}] : n \in 0 .. maxlen }

\* values written to the threshold: the unsigned minimum, values below,
\* at and above the arity, and the default
ThrValues(Qv) == {0, Qv - 1, Qv, 2 * Qv}

\* values of at least the arity written to the threshold: the arity, the
\* next value, the default and the value after it
ThrValuesGe(Qv) == {Qv, Qv + 1, 2 * Qv, 2 * Qv + 1}

----------------------------------------------------------------------------
(* Pure parts of the code.                                                 *)

\* default member initializer of _Q_ary_search_parameters_t
DefaultThreshold(Qv) == Qv * 2

\* std::less / std::less_equal handed to the core by the wrappers
pred(pname, e, qv) ==
    IF pname = "less" THEN e < qv ELSE e <= qv

\* slip: the upper bound built on std::less like the other two
PredOf_always_less(w) == "less"

\* predicate each entry point passes to the core
PredOf(w) ==
    IF w = "upper_bound" THEN "less_equal" ELSE "less"

\* '*it' for the position p; outside the range the read is undefined and
\* yields g
Deref(arr, p, g) ==
    IF p \in 0 .. Len(arr) - 1 THEN arr[p + 1] ELSE g

\* the loop condition 'length >= _to_linear_threshold'
while_cond(len, thr) == len >= thr

\* slip: the loop of every arity tests _2_ary_search_parameters
threshold_load_2_ary(mem, reg) == {DefaultThreshold(2)}

\* Values the loop condition's load of the threshold may yield.  The
\* parameter is a plain global: a write racing with the call is a data
\* race, so the load yields the value in memory or the value the call
\* loaded before (kept in a register).
threshold_load(mem, reg) ==
    IF reg = None THEN {mem} ELSE {mem, reg}

(* One iteration of the narrowing loop of each arity: the new window, the  *)
(* fragment length and the positions probed.                               *)
Window(b, len, fl, probed) ==
    [begin |-> b, length |-> len, fragment_length |-> fl, probed |-> probed]

_2_ary_step(b, len, arr, qv, pname, g) ==
    LET fl == len \div 2
        begin_1 == b + fl
    IN  IF pred(pname, Deref(arr, begin_1, g), qv)
        THEN Window(begin_1, len - fl, fl, {begin_1})
        ELSE Window(b, fl, fl, {begin_1})

\* slip: 'else begin = begin_1' left out
_3_ary_step_begin_kept(b, len, arr, qv, pname, g) ==
    LET fl == len \div 3
        begin_1 == b + fl
        begin_2 == begin_1 + fl
    IN  IF pred(pname, Deref(arr, begin_1, g), qv)
        THEN IF pred(pname, Deref(arr, begin_2, g), qv)
             THEN Window(begin_2, len - 2 * fl, fl, {begin_1, begin_2})
             ELSE Window(b, fl, fl, {begin_1, begin_2})
        ELSE Window(b, fl, fl, {begin_1})

\* slip: 'length -= fragment_length' as in the 2-ary loop
_3_ary_step_one_fragment_off(b, len, arr, qv, pname, g) ==
    LET fl == len \div 3
        begin_1 == b + fl
        begin_2 == begin_1 + fl
    IN  IF pred(pname, Deref(arr, begin_1, g), qv)
        THEN IF pred(pname, Deref(arr, begin_2, g), qv)
             THEN Window(begin_2, len - fl, fl, {begin_1, begin_2})
             ELSE Window(begin_1, fl, fl, {begin_1, begin_2})
        ELSE Window(b, fl, fl, {begin_1})

_3_ary_step(b, len, arr, qv, pname, g) ==
    LET fl == len \div 3
        begin_1 == b + fl
        begin_2 == begin_1 + fl
    IN  IF pred(pname, Deref(arr, begin_1, g), qv)
        THEN IF pred(pname, Deref(arr, begin_2, g), qv)
             THEN Window(begin_2, len - 2 * fl, fl, {begin_1, begin_2})
             ELSE Window(begin_1, fl, fl, {begin_1, begin_2})
        ELSE Window(b, fl, fl, {begin_1})

\* slip: 'length -= 3 * fragment_length' left out
_4_ary_step_length_kept(b, len, arr, qv, pname, g) ==
    LET fl == len \div 4
        begin_1 == b + fl
        begin_2 == begin_1 + fl
        begin_3 == begin_2 + fl
    IN  IF pred(pname, Deref(arr, begin_1, g), qv)
        THEN IF pred(pname, Deref(arr, begin_2, g), qv)
             THEN IF pred(pname, Deref(arr, begin_3, g), qv)
                  THEN Window(begin_3, len, fl,
                              {begin_1, begin_2, begin_3})
                  ELSE Window(begin_2, fl, fl, {begin_1, begin_2, begin_3})
             ELSE Window(begin_1, fl, fl, {begin_1, begin_2})
        ELSE Window(b, fl, fl, {begin_1})

\* slip: the branches of the cascade numbered one too high,
\* 'else begin = begin_2' where the second probe fails
_4_ary_step_wrong_fragment(b, len, arr, qv, pname, g) ==
    LET fl == len \div 4
        begin_1 == b + fl
        begin_2 == begin_1 + fl
        begin_3 == begin_2 + fl
    IN  IF pred(pname, Deref(arr, begin_1, g), qv)
        THEN IF pred(pname, Deref(arr, begin_2, g), qv)
             THEN IF pred(pname, Deref(arr, begin_3, g), qv)
                  THEN Window(begin_3, len - 3 * fl, fl,
                              {begin_1, begin_2, begin_3})
                  ELSE Window(begin_2, fl, fl, {begin_1, begin_2, begin_3})
             ELSE Window(begin_2, fl, fl, {begin_1, begin_2})
        ELSE Window(b, fl, fl, {begin_1})

_4_ary_step(b, len, arr, qv, pname, g) ==
    LET fl == len \div 4
        begin_1 == b + fl
        begin_2 == begin_1 + fl
        begin_3 == begin_2 + fl
    IN  IF pred(pname, Deref(arr, begin_1, g), qv)
        THEN IF pred(pname, Deref(arr, begin_2, g), qv)
             THEN IF pred(pname, Deref(arr, begin_3, g), qv)
                  THEN Window(begin_3, len - 3 * fl, fl,
                              {begin_1, begin_2, begin_3})
                  ELSE Window(begin_2, fl, fl, {begin_1, begin_2, begin_3})
             ELSE Window(begin_1, fl, fl, {begin_1, begin_2})
        ELSE Window(b, fl, fl, {begin_1})

\* slip: the fragment length rounded up, the remainder spread over the
\* leading fragments
_5_ary_step_round_up(b, len, arr, qv, pname, g) ==
    LET fl == (len + 4) \div 5
        begin_1 == b + fl
        begin_2 == begin_1 + fl
        begin_3 == begin_2 + fl
        begin_4 == begin_3 + fl
    IN  IF pred(pname, Deref(arr, begin_1, g), qv)
        THEN IF pred(pname, Deref(arr, begin_2, g), qv)
             THEN IF pred(pname, Deref(arr, begin_3, g), qv)
                  THEN IF pred(pname, Deref(arr, begin_4, g), qv)
                       THEN Window(begin_4, len - 4 * fl, fl,
                                   {begin_1, begin_2, begin_3, begin_4})
                       ELSE Window(begin_3, fl, fl,
                                   {begin_1, begin_2, begin_3, begin_4})
                  ELSE Window(begin_2, fl, fl, {begin_1, begin_2, begin_3})
             ELSE Window(begin_1, fl, fl, {begin_1, begin_2})
        ELSE Window(b, fl, fl, {begin_1})

_5_ary_step(b, len, arr, qv, pname, g) ==
    LET fl == len \div 5
        begin_1 == b + fl
        begin_2 == begin_1 + fl
        begin_3 == begin_2 + fl
        begin_4 == begin_3 + fl
    IN  IF pred(pname, Deref(arr, begin_1, g), qv)
        THEN IF pred(pname, Deref(arr, begin_2, g), qv)
             THEN IF pred(pname, Deref(arr, begin_3, g), qv)
                  THEN IF pred(pname, Deref(arr, begin_4, g), qv)
                       THEN Window(begin_4, len - 4 * fl, fl,
                                   {begin_1, begin_2, begin_3, begin_4})
                       ELSE Window(begin_3, fl, fl,
                                   {begin_1, begin_2, begin_3, begin_4})
                  ELSE Window(begin_2, fl, fl, {begin_1, begin_2, begin_3})
             ELSE Window(begin_1, fl, fl, {begin_1, begin_2})
        ELSE Window(b, fl, fl, {begin_1})

\* slip: the last fragment taken without the remainder
_6_ary_step_no_remainder(b, len, arr, qv, pname, g) ==
    LET fl == len \div 6
        begin_1 == b + fl
        begin_2 == begin_1 + fl
        begin_3 == begin_2 + fl
        begin_4 == begin_3 + fl
        begin_5 == begin_4 + fl
    IN  IF pred(pname, Deref(arr, begin_1, g), qv)
        THEN IF pred(pname, Deref(arr, begin_2, g), qv)
             THEN IF pred(pname, Deref(arr, begin_3, g), qv)
                  THEN IF pred(pname, Deref(arr, begin_4, g), qv)
                       THEN IF pred(pname, Deref(arr, begin_5, g), qv)
                            THEN Window(begin_5, fl, fl,
                                        {begin_1, begin_2, begin_3, begin_4,
                                         begin_5})
                            ELSE Window(begin_4, fl, fl,
                                        {begin_1, begin_2, begin_3, begin_4,
                                         begin_5})
                       ELSE Window(begin_3, fl, fl,
                                   {begin_1, begin_2, begin_3, begin_4})
                  ELSE Window(begin_2, fl, fl, {begin_1, begin_2, begin_3})
             ELSE Window(begin_1, fl, fl, {begin_1, begin_2})
        ELSE Window(b, fl, fl, {begin_1})

_6_ary_step(b, len, arr, qv, pname, g) ==
    LET fl == len \div 6
        begin_1 == b + fl
        begin_2 == begin_1 + fl
        begin_3 == begin_2 + fl
        begin_4 == begin_3 + fl
        begin_5 == begin_4 + fl
    IN  IF pred(pname, Deref(arr, begin_1, g), qv)
        THEN IF pred(pname, Deref(arr, begin_2, g), qv)
             THEN IF pred(pname, Deref(arr, begin_3, g), qv)
                  THEN IF pred(pname, Deref(arr, begin_4, g), qv)
                       THEN IF pred(pname, Deref(arr, begin_5, g), qv)
                            THEN Window(begin_5, len - 5 * fl, fl,
                                        {begin_1, begin_2, begin_3, begin_4,
                                         begin_5})
                            ELSE Window(begin_4, fl, fl,
                                        {begin_1, begin_2, begin_3, begin_4,
                                         begin_5})
                       ELSE Window(begin_3, fl, fl,
                                   {begin_1, begin_2, begin_3, begin_4})
                  ELSE Window(begin_2, fl, fl, {begin_1, begin_2, begin_3})
             ELSE Window(begin_1, fl, fl, {begin_1, begin_2})
        ELSE Window(b, fl, fl, {begin_1})

\* the loop body of the arity Qv
NarrowStep(Qv, b, len, arr, qv, pname, g) ==
    CASE Qv = 2 -> _2_ary_step(b, len, arr, qv, pname, g)
      [] Qv = 3 -> _3_ary_step(b, len, arr, qv, pname, g)
      [] Qv = 4 -> _4_ary_step(b, len, arr, qv, pname, g)
      [] Qv = 5 -> _5_ary_step(b, len, arr, qv, pname, g)
      [] Qv = 6 -> _6_ary_step(b, len, arr, qv, pname, g)

\* slip: the operands swapped, 'pred(*begin, q) && begin != end'
scan_reads_before_compare(b, e) == {b}

\* positions the linear scan's condition 'begin != end && pred(*begin, q)'
\* dereferences: the right operand is evaluated only when the left holds
scan_reads(b, e) ==
    IF b # e THEN {b} ELSE {}

\* the linear scan's condition
scan_cond(b, e, arr, qv, pname, g) ==
    b # e /\ pred(pname, Deref(arr, b, g), qv)

\* positions the membership overload dereferences in
\* 'result != end && ! (q < *result)'
member_reads(res, e) ==
    IF res # e THEN {res} ELSE {}

\* slip: 'result != end' left out
member_value_no_end_check(res, e, arr, qv, g) ==
    ~ (qv < Deref(arr, res, g))

\* value of the membership overload
member_value(res, e, arr, qv, g) ==
    res # e /\ ~ (qv < Deref(arr, res, g))

----------------------------------------------------------------------------
(* The state machine.                                                      *)

InitWith(arrays) ==
    /\ a \in arrays
    /\ Q \in Arities
    /\ _to_linear_threshold = DefaultThreshold(Q)
    /\ pc = "idle"
    /\ wrapper = "lower_bound"
    /\ q = 1
    /\ begin = 0
    /\ end = 0
    /\ length = 0
    /\ fragment_length = 0
    /\ result = None
    /\ found = FALSE
    /\ reads = {}
    /\ iters = 0
    /\ thr_reg = None
    /\ thr_first = None
    /\ written = FALSE

Init == InitWith(SortedArrays(MaxLen))

InitAny == InitWith(AnyArrays(MaxLenAny))

InitThr == InitWith(SortedArrays(MaxLenThr))

InitFair == InitWith(SortedArrays(MaxLenFair))

InitGe == InitWith(SortedArrays(MaxLenGe))

\* A caller enters _Q_ary_lower_bound, _Q_ary_upper_bound or the
\* membership overload on the whole range; the core starts with
\* length = end - begin.
Call ==
    /\ pc = "idle"
    /\ \E w \in Wrappers, qv \in Queries :
          /\ wrapper' = w
          /\ q' = qv
    /\ begin' = 0
    /\ end' = Len(a)
    /\ length' = Len(a) - 0
    /\ fragment_length' = 0
    /\ result' = None
    /\ found' = FALSE
    /\ reads' = {}
    /\ iters' = 0
    /\ thr_reg' = None
    /\ thr_first' = None
    /\ written' = FALSE
    /\ pc' = "loop"
    /\ UNCHANGED << a, Q, _to_linear_threshold >>

\* the loop condition holds: one iteration of the narrowing loop
Narrow ==
    /\ pc = "loop"
    /\ \E t \in threshold_load(_to_linear_threshold, thr_reg), g \in Garbage :
          /\ while_cond(length, t)
          /\ LET w == NarrowStep(Q, begin, length, a, q, PredOf(wrapper), g)
             IN  /\ begin' = w.begin
                 /\ length' = w.length
                 /\ fragment_length' = w.fragment_length
                 /\ reads' = reads \cup w.probed
          /\ thr_reg' = t
          /\ thr_first' = IF thr_first = None THEN t ELSE thr_first
    /\ iters' = IF iters < MaxIters THEN iters + 1 ELSE iters
    /\ UNCHANGED << a, Q, _to_linear_threshold, pc, wrapper, q, end, result,
                    found, written >>

\* the loop condition fails: 'end = begin + length' and on to the scan
ExitLoop ==
    /\ pc = "loop"
    /\ \E t \in threshold_load(_to_linear_threshold, thr_reg) :
          /\ ~ while_cond(length, t)
          /\ thr_reg' = t
          /\ thr_first' = IF thr_first = None THEN t ELSE thr_first
    /\ end' = begin + length
    /\ pc' = "linear"
    /\ UNCHANGED << a, Q, _to_linear_threshold, wrapper, q, begin, length,
                    fragment_length, result, found, reads, iters, written >>

\* the scan's condition holds: '++begin'
ScanStep ==
    /\ pc = "linear"
    /\ \E g \in Garbage :
          scan_cond(begin, end, a, q, PredOf(wrapper), g)
    /\ reads' = reads \cup scan_reads(begin, end)
    /\ begin' = begin + 1
    /\ UNCHANGED << a, Q, _to_linear_threshold, pc, wrapper, q, end, length,
                    fragment_length, result, found, iters, thr_reg, thr_first,
                    written >>

\* the scan's condition fails: the core returns 'begin'; the membership
\* overload then compares the element found with the query
ScanStop ==
    /\ pc = "linear"
    /\ \E g \in Garbage :
          /\ ~ scan_cond(begin, end, a, q, PredOf(wrapper), g)
          /\ found' = IF wrapper = "search"
                      THEN member_value(begin, Len(a), a, q, g)
                      ELSE FALSE
    /\ result' = begin
    /\ reads' = reads \cup scan_reads(begin, end)
                      \cup (IF wrapper = "search"
                            THEN member_reads(begin, Len(a)) ELSE {})
    /\ pc' = "done"
    /\ UNCHANGED << a, Q, _to_linear_threshold, wrapper, q, begin, end, length,
                    fragment_length, iters, thr_reg, thr_first, written >>

\* the caller takes the value; the call's locals are gone
Return ==
    /\ pc = "done"
    /\ pc' = "idle"
    /\ wrapper' = "lower_bound"
    /\ q' = 1
    /\ begin' = 0
    /\ end' = 0
    /\ length' = 0
    /\ fragment_length' = 0
    /\ result' = None
    /\ found' = FALSE
    /\ reads' = {}
    /\ iters' = 0
    /\ thr_reg' = None
    /\ thr_first' = None
    /\ written' = FALSE
    /\ UNCHANGED << a, Q, _to_linear_threshold >>

\* somebody assigns _Q_ary_search_parameters._to_linear_threshold, between
\* calls or while a call is in flight
SetThreshold ==
    /\ \E v \in ThrValues(Q) :
          /\ v # _to_linear_threshold
          /\ _to_linear_threshold' = v
    /\ written' = (written \/ thr_first # None)
    /\ UNCHANGED << a, Q, pc, wrapper, q, begin, end, length, fragment_length,
                    result, found, reads, iters, thr_reg, thr_first >>

\* somebody assigns a value of at least the arity to the threshold,
\* between calls or while a call is in flight
SetThresholdGe ==
    /\ \E v \in ThrValuesGe(Q) :
          /\ v # _to_linear_threshold
          /\ _to_linear_threshold' = v
    /\ written' = (written \/ thr_first # None)
    /\ UNCHANGED << a, Q, pc, wrapper, q, begin, end, length, fragment_length,
                    result, found, reads, iters, thr_reg, thr_first >>

SearchStep == Narrow \/ ExitLoop \/ ScanStep \/ ScanStop

Next == Call \/ Narrow \/ ExitLoop \/ ScanStep \/ ScanStop \/ Return

NextThr == Call \/ Narrow \/ ExitLoop \/ ScanStep \/ ScanStop \/ Return
              \/ SetThreshold

NextGe == Call \/ Narrow \/ ExitLoop \/ ScanStep \/ ScanStop \/ Return
             \/ SetThresholdGe

\* sorted ranges, threshold left at its default
Spec == Init /\ [][Next]_vars

\* arbitrary ranges, threshold left at its default
AnySpec == InitAny /\ [][Next]_vars

\* sorted ranges, threshold written at any moment
ThrSpec == InitThr /\ [][NextThr]_vars

\* sorted ranges, threshold written at any moment with values of at least
\* the arity
GeSpec == InitGe /\ [][NextGe]_vars

\* threshold written at any moment, and a call in flight keeps executing
FairThrSpec == InitFair /\ [][NextThr]_vars /\ WF_vars(SearchStep)

----------------------------------------------------------------------------
(* Reference notions the results are compared with.                        *)

Min(S) == CHOOSE x \in S : \A y \in S : x <= y

\* first position whose element is >= v, or the end
FirstAtLeast(arr, v) ==
    Min({p \in 0 .. Len(arr) - 1 : arr[p + 1] >= v} \cup {Len(arr)})

\* first position whose element is > v, or the end
FirstGreater(arr, v) ==
    Min({p \in 0 .. Len(arr) - 1 : arr[p + 1] > v} \cup {Len(arr)})

Occurs(arr, v) == \E i \in 1 .. Len(arr) : arr[i] = v

IsSorted(arr) == \A i \in 1 .. Len(arr) - 1 : arr[i] <= arr[i + 1]

\* the probe with 1-based index j of the iteration about to run satisfies
\* the predicate
ProbeHolds(j) ==
    pred(PredOf(wrapper), Deref(a, begin + j * (length \div Q), 0), q)

\* the probe with index k is the first one that fails
FirstFailIs(k) ==
    /\ \A j \in 1 .. k - 1 : ProbeHolds(j)
    /\ ~ ProbeHolds(k)

AllProbesHold == \A j \in 1 .. Q - 1 : ProbeHolds(j)

\* Narrowing iterations of a call that meets the threshold thr at every
\* loop test, counted as 'iters' counts them (up to fuel).
RECURSIVE NarrowCount(_, _, _, _)
NarrowCount(b, len, thr, fuel) ==
    IF fuel = 0 \/ ~ while_cond(len, thr)
    THEN 0
    ELSE LET w == NarrowStep(Q, b, len, a, q, PredOf(wrapper), 0)
         IN  1 + NarrowCount(w.begin, w.length, thr, fuel - 1)

----------------------------------------------------------------------------
(* The claims.                                                             *)

\* C1: on a sorted range, at the default threshold, _Q_ary_lower_bound
\* returns the first position whose element is >= the query, or the end,
\* for every arity, length and query.
C1_LowerBoundAgrees ==
    (pc = "done" /\ wrapper = "lower_bound") => result = FirstAtLeast(a, q)

\* a 6-ary lower bound that narrowed twice on a length not divisible by 6
\* and landed on the first element of a run of elements equal to the query
C1_Witness ==
    /\ pc = "done" /\ wrapper = "lower_bound" /\ Q = 6
    /\ iters >= 2 /\ Len(a) % Q # 0
    /\ result > 0 /\ result + 1 < Len(a)
    /\ a[result + 1] = q /\ a[result + 2] = q

\* C2: on a sorted range _Q_ary_upper_bound returns the first position
\* whose element is > the query, or the end: one past the last element of
\* a run of elements equal to the query.
C2_UpperBoundAgrees ==
    (pc = "done" /\ wrapper = "upper_bound") => result = FirstGreater(a, q)

\* an upper bound that narrowed and landed one past a run of elements
\* equal to the query, inside the range
C2_Witness ==
    /\ pc = "done" /\ wrapper = "upper_bound"
    /\ iters >= 2
    /\ result > 1 /\ result < Len(a)
    /\ a[result] = q /\ a[result - 1] = q

\* C3: on a sorted range the membership overload returns true exactly
\* when some element equals the query; it returns false when the lower
\* bound is the end, and never reads the element at the end position.
C3_MembershipIff ==
    (pc = "done" /\ wrapper = "search")
        => /\ found <=> Occurs(a, q)
           /\ result = Len(a) => ~ found
           /\ Len(a) \notin reads

\* a membership call that narrowed, ran to the end of a non-empty range
\* and answered false
C3_Witness ==
    /\ pc = "done" /\ wrapper = "search"
    /\ iters >= 1 /\ Len(a) > 0
    /\ result = Len(a) /\ ~ found

\* C4: at the default threshold a call on an empty range returns the start
\* without narrowing, without a scan step and without reading an element.
C4_EmptyRange ==
    (Len(a) = 0 /\ pc \in {"loop", "linear", "done"})
        => /\ iters = 0
           /\ begin = 0
           /\ reads = {}
           /\ pc = "done" => result = 0 /\ ~ found

\* a membership call on the empty range has returned
C4_Witness ==
    /\ pc = "done" /\ Len(a) = 0 /\ wrapper = "search" /\ result = 0

\* C5: whatever value the threshold holds, a call that has entered the
\* core runs to completion.
C5_Terminates == (pc = "loop") ~> (pc = "done")

\* C6: at the default threshold, on any range, sorted or not, a call
\* dereferences only positions inside the range and returns a position
\* of the range or its end.
C6_SafeOnAnyRange ==
    /\ reads \subseteq 0 .. Len(a) - 1
    /\ pc = "done" => result \in 0 .. Len(a)

\* a call on a range that is not sorted has narrowed and returned a
\* position that is not the partition boundary
C6_Witness ==
    /\ pc = "done" /\ wrapper = "lower_bound"
    /\ ~ IsSorted(a)
    /\ iters >= 1
    /\ result # FirstAtLeast(a, q)

\* C7 as stated: when the probe with index k is the first one that fails,
\* the window start is unchanged and the length becomes k * fragment_length.
C7_Original ==
    [][Narrow =>
        \A k \in 1 .. Q - 1 :
            FirstFailIs(k) => /\ begin' = begin
                              /\ length' = k * (length \div Q)]_vars

\* C7 amended: when the probe with index k is the first one that fails,
\* the window becomes the fragment before that probe: the start advances
\* by (k - 1) * fragment_length and the length becomes fragment_length.
C7_FailingProbe ==
    [][Narrow =>
        \A k \in 1 .. Q - 1 :
            FirstFailIs(k) => /\ begin' = begin + (k - 1) * (length \div Q)
                              /\ length' = length \div Q]_vars

\* the first iteration of a call of arity >= 4 found its third probe
\* failing
C7_Witness ==
    /\ pc = "loop" /\ iters = 1 /\ Q >= 4
    /\ fragment_length >= 2
    /\ begin = 2 * fragment_length
    /\ length = fragment_length

\* C8: fragment_length is floor(length / Q); when every probe holds the
\* window becomes the last fragment together with the remainder, and
\* otherwise the new length is a multiple of fragment_length and the
\* window ends before the remainder.
C8_RemainderInLastFragment ==
    [][Narrow =>
        /\ fragment_length' = length \div Q
        /\ IF AllProbesHold
           THEN /\ begin' = begin + (Q - 1) * (length \div Q)
                /\ length' = length - (Q - 1) * (length \div Q)
                /\ begin' + length' = begin + length
           ELSE /\ \E m \in 1 .. Q - 1 : length' = m * (length \div Q)
                /\ begin' + length' <= begin + (Q - 1) * (length \div Q)]_vars

\* the first iteration of a 5-ary call took the last fragment of a length
\* not divisible by 5
C8_Witness ==
    /\ pc = "loop" /\ iters = 1 /\ Q = 5
    /\ Len(a) % 5 # 0
    /\ begin = 4 * fragment_length
    /\ length > fragment_length
    /\ begin + length = Len(a)

\* C9 as stated: the threshold is inspected once per call, so a call
\* performs the narrowing steps of the value its first loop test loaded,
\* whatever is written afterwards (stated for first loads of at least the
\* arity, where every probe is inside the window).
C9_Original ==
    (pc = "done" /\ thr_first >= Q)
        => iters = NarrowCount(0, Len(a), thr_first, MaxIters)

\* C9 amended: the threshold is loaded at every test of the loop
\* condition; a call during which the threshold is not written performs
\* the narrowing steps of the value the threshold holds.
C9_StableWithoutWrite ==
    (pc = "done" /\ ~ written)
        => iters = NarrowCount(0, Len(a), _to_linear_threshold, MaxIters)

\* a call that began after the threshold was lowered to the arity has
\* narrowed more often than the default allows, with no write in between
C9_Witness ==
    /\ pc = "done" /\ ~ written
    /\ _to_linear_threshold = Q
    /\ iters > NarrowCount(0, Len(a), DefaultThreshold(Q), MaxIters)

\* C10 as stated: every narrowing step removes at least 1/Q of the window.
C10_Original ==
    [][Narrow => Q * (length - length') >= length]_vars

\* C10 amended: every narrowing step shortens the window; it removes at
\* least 1/Q of it, except that the 2-ary step on an odd length whose
\* probe holds removes floor(length / 2), one half element less.
C10_Reduction ==
    [][Narrow =>
        /\ length' < length
        /\ \/ Q * (length - length') >= length
           \/ /\ Q = 2 /\ length % 2 = 1 /\ AllProbesHold
              /\ length - length' = length \div 2]_vars

\* the first iteration of a 2-ary call on an odd length took the last
\* fragment, which is the longer one
C10_Witness ==
    /\ pc = "loop" /\ iters = 1 /\ Q = 2
    /\ Len(a) % 2 = 1
    /\ begin = fragment_length
    /\ length = fragment_length + 1

\* the partition boundary of the call in flight: the first position whose
\* element fails the call's predicate, or the end of the range
Boundary ==
    Min({p \in 0 .. Len(a) - 1 : ~ pred(PredOf(wrapper), a[p + 1], q)}
            \cup {Len(a)})

\* C11: on a sorted range, with every threshold of at least the arity, at
\* the start of every narrowing iteration and of the linear scan the
\* partition boundary lies in the window, begin <= b <= begin + length,
\* and the window lies in the range; the value returned is the boundary,
\* whatever the threshold.
C11_BoundaryInWindow ==
    /\ (pc = "loop" \/ (pc = "linear" /\ end = begin + length))
          => /\ begin <= Boundary
             /\ Boundary <= begin + length
             /\ 0 <= begin
             /\ begin + length <= Len(a)
    /\ pc = "done" => result = Boundary

\* a call that narrowed twice with the threshold lowered to the arity is
\* at the start of its scan, the boundary strictly inside the window
C11_Witness ==
    /\ pc = "linear" /\ end = begin + length
    /\ iters >= 2
    /\ thr_first = Q /\ thr_reg = Q
    /\ begin < Boundary
    /\ Boundary < begin + length

====
